---- MODULE Spec2Model ----
(***************************************************************************)
(* TrustCar inspection server (server.js): the flat-file inspection store, *)
(* the seller-token checks, the upload intake handlers and the admin       *)
(* handlers that write the store.                                          *)
(*                                                                         *)
(* The store is the single JSON document data.json.  Every handler starts  *)
(* with readData() (a private copy of the whole document) and ends with    *)
(* writeData(copy).  A handler that awaits between the two is modelled as  *)
(* several steps that carry the private copy in `inflight`.                *)
(***************************************************************************)
EXTENDS Integers, Sequences, FiniteSets, TLC

\* ------------------------------------------------------------------ bounds
MaxInspections == 2     \* inspections ever created; the ids requests name
MaxEvents == 4          \* state-growing steps in one behaviour: inspections
                        \* created, files or upload entries named, clock advances
MaxInflight == 2        \* handlers suspended on an await at the same time

\* ------------------------------------------------------ program constants
\* server.js:130  Date.now() + 48 * 3600 * 1000
TokenTTL == 48 * 3600 * 1000

VARIABLES
    data,       \* contents of data.json: [inspections, uploads]
    files,      \* names present in UPLOAD_DIR (written by multer)
    now,        \* Date.now()
    ticks,      \* number of clock advances so far
    cfg,        \* process configuration read from the environment at start
    nextId,     \* number of inspections created (uuidv4 never repeats)
    nextUp,     \* uuids drawn for stored files and upload entries so far
    edits,      \* number of admin writes so far
    inflight,   \* handlers suspended on an await, each with its copy of data
    last        \* the request handled by the last step and its response

vars == <<data, files, now, ticks, cfg, nextId, nextUp, edits, inflight, last>>

\* ----------------------------------------------------------------- values
InspectionIds == 1..MaxInspections

NoToken == ""                         \* req.query.t and x-token both absent
Tok(k) == "t" \o ToString(k)          \* the k-th token drawn from uuidv4()
\* tokens a client may present: none, or any value uuidv4() can issue (a token
\* is one never issued for as long as its inspection has not been created)
PresentedTokens == {NoToken} \cup {Tok(k) : k \in 1..MaxInspections}

Statuses == {"pending", "submitted", "flagged", "completed", "complete"}

\* mutant of hashToken: the digest step left out
hashTokenPlain(token) == token

\* crypto.createHash('sha256').update(token).digest('hex')
hashToken(token) == "sha256:" \o token

readData == data

\* req.body.checkItem: the declared checklist category ("none": not declared)
CheckItems == {"none", "odometer", "vin_plate", "other"}

\* uploadEntry.  exif, quality and detection are properties the handler may
\* never set ("absent"), set to null ("null") or set to a result; ocrVin is a
\* property the scoring reads and no handler sets.
NoEntry == [id |-> 0, inspectionId |-> 0, filename |-> 0, checkItem |-> "none",
            uploadedAt |-> 0, exif |-> "absent", quality |-> "absent",
            detection |-> "absent", ocrVin |-> "absent"]

NoLast == [op |-> "none", id |-> 0, token |-> NoToken, file |-> FALSE,
           result |-> "none", body |-> {}, stored |-> 0, at |-> 0]

\* data.inspections.find(x => x.id === id): index of the record, 0 if none
FindIndex(d, id) ==
    IF \E k \in 1..Len(d.inspections) : d.inspections[k].id = id
    THEN CHOOSE k \in 1..Len(d.inspections) :
            /\ d.inspections[k].id = id
            /\ \A j \in 1..(k - 1) : d.inspections[j].id # id
    ELSE 0

Find(d, id) == d.inspections[FindIndex(d, id)]

\* mutant of CheckToken: the expiry comparison left out
CheckTokenNoExpiry(d, id, token, t) ==
    IF FindIndex(d, id) = 0 THEN "NotFound"
    ELSE IF token = NoToken THEN "MissingToken"
    ELSE IF hashToken(token) # Find(d, id).tokenHash THEN "InvalidToken"
    ELSE "Ok"

\* mutant of CheckToken: the hash comparison made against any inspection
CheckTokenAnyInspection(d, id, token, t) ==
    IF FindIndex(d, id) = 0 THEN "NotFound"
    ELSE IF token = NoToken THEN "MissingToken"
    ELSE IF \A k \in 1..Len(d.inspections) :
                hashToken(token) # d.inspections[k].tokenHash THEN "InvalidToken"
    ELSE IF t > Find(d, id).tokenExpiry THEN "TokenExpired"
    ELSE "Ok"

\* mutant of CheckToken: expiry tested before the hash
CheckTokenExpiryFirst(d, id, token, t) ==
    IF FindIndex(d, id) = 0 THEN "NotFound"
    ELSE IF token = NoToken THEN "MissingToken"
    ELSE IF t > Find(d, id).tokenExpiry THEN "TokenExpired"
    ELSE IF hashToken(token) # Find(d, id).tokenHash THEN "InvalidToken"
    ELSE "Ok"

\* The four checks every token-protected handler makes, in the code's order:
\* 404 Inspection not found, 400 Missing token, 403 Invalid token,
\* 403 Token expired.
CheckToken(d, id, token, t) ==
    IF FindIndex(d, id) = 0 THEN "NotFound"
    ELSE IF token = NoToken THEN "MissingToken"
    ELSE IF hashToken(token) # Find(d, id).tokenHash THEN "InvalidToken"
    ELSE IF t > Find(d, id).tokenExpiry THEN "TokenExpired"
    ELSE "Ok"

\* ------------------------------------------------------------------- init
\* { inspections: [], uploads: [] }; vinRecords is added by the first
\* POST /api/vin-records, and an absent list reads like an empty one
\* (data.vinRecords?.find)
EmptyStore == [inspections |-> <<>>, uploads |-> <<>>, vinRecords |-> <<>>]

Init ==
    /\ data = EmptyStore
    /\ files = {}
    /\ now = 0
    /\ ticks = 0
    /\ cfg \in [roboflow : BOOLEAN]
    /\ nextId = 0
    /\ nextUp = 0
    /\ edits = 0
    /\ inflight = {}
    /\ last = NoLast

\* The clock moves between requests: by a millisecond or by the token lifetime.
Tick ==
    /\ \E d \in {1, TokenTTL} : now' = now + d
    /\ ticks' = ticks + 1
    /\ last' = NoLast
    /\ UNCHANGED <<data, files, cfg, nextId, nextUp, edits, inflight>>

\* insp.fraudScore before the first scoring run; the inspection literal also
\* has no sellerZip, vin, odometerReading or sellerDisclosedDamage: they read
\* as falsy, undefined ("absent"), `|| 0` and falsy
NoScore == [score |-> -1, level |-> "none", autoFlag |-> FALSE, flags |-> <<>>,
            timestamp |-> 0]

\* ---------------------------------------------------------- POST /api/inspections
\* mutant of NewInspection: the seller's ZIP code taken at creation
NewInspectionZip(id, token, t) ==
    [id |-> id, tokenHash |-> hashToken(token), tokenExpiry |-> t + TokenTTL,
     status |-> "pending", createdAt |-> t, aiReport |-> "none", report |-> FALSE,
     fraudScore |-> NoScore, sellerZip |-> TRUE, vin |-> "absent",
     odometerReading |-> 0, sellerDisclosedDamage |-> FALSE]

NewInspection(id, token, t) ==
    [id |-> id,
     tokenHash |-> hashToken(token),
     tokenExpiry |-> t + TokenTTL,
     status |-> "pending",
     createdAt |-> t,
     aiReport |-> "none",
     report |-> FALSE,
     fraudScore |-> NoScore,
     sellerZip |-> FALSE,
     vin |-> "absent",
     odometerReading |-> 0,
     sellerDisclosedDamage |-> FALSE]

PostInspections ==
    /\ LET id == nextId + 1
           token == Tok(id)
           d == readData
       IN /\ data' = [d EXCEPT !.inspections = Append(@, NewInspection(id, token, now))]
          /\ last' = [NoLast EXCEPT !.op = "create", !.id = id, !.result = "Ok",
                                    !.body = {token}, !.at = now]
    /\ nextId' = nextId + 1
    /\ UNCHANGED <<files, now, ticks, cfg, nextUp, edits, inflight>>

\* ----------------------------------------------------------- GET /api/inspections
GetInspections ==
    /\ last' = [NoLast EXCEPT !.op = "list", !.result = "Ok", !.at = now,
                  !.body = {readData.inspections[k].tokenHash :
                               k \in 1..Len(readData.inspections)}]
    /\ UNCHANGED <<data, files, now, ticks, cfg, nextId, nextUp, edits, inflight>>

\* ------------------------------------------------ GET /api/inspections/:id/validate
GetValidate(id, token) ==
    /\ last' = [NoLast EXCEPT !.op = "validate", !.id = id, !.token = token,
                  !.result = CheckToken(readData, id, token, now), !.at = now]
    /\ UNCHANGED <<data, files, now, ticks, cfg, nextId, nextUp, edits, inflight>>

\* --------------------------------------------- POST /api/inspections/:id/uploads
\* multer's diskStorage runs as route middleware, before the handler body: a
\* request that carries a 'file' part has it written to UPLOAD_DIR under a
\* fresh uuid name, whatever the handler then decides.
MulterStore(dir, hasFile, name) == IF hasFile THEN dir \cup {name} ELSE dir

\* mutant of UploadCheck: the file test made before the inspection and token tests
UploadCheckFileFirst(d, id, token, hasFile, t) ==
    IF ~hasFile THEN "MissingFile" ELSE CheckToken(d, id, token, t)

\* server.js:184-189: the handler's early returns, in order
UploadCheck(d, id, token, hasFile, t) ==
    IF CheckToken(d, id, token, t) # "Ok" THEN CheckToken(d, id, token, t)
    ELSE IF ~hasFile THEN "MissingFile"
    ELSE "Ok"

\* mutant of Submit: the status left as it was
SubmitNoTransition(d, id) == d

\* if (insp.status === 'pending') insp.status = 'submitted'
Submit(d, id) ==
    IF Find(d, id).status = "pending"
    THEN [d EXCEPT !.inspections[FindIndex(d, id)].status = "submitted"]
    ELSE d

\* mutant of PushUpload: the token spent by the upload it admitted
PushUploadConsume(d, entry) ==
    [d EXCEPT !.uploads = Append(@, entry),
              !.inspections[FindIndex(d, entry.inspectionId)].tokenHash = "consumed"]

\* mutant of PushUpload: an entry whose analysis failed is not stored
PushUploadAnalysed(d, entry) ==
    IF entry.exif = "null" \/ entry.quality = "null" THEN d
    ELSE [d EXCEPT !.uploads = Append(@, entry)]

\* data.uploads.push(uploadEntry)
PushUpload(d, entry) == [d EXCEPT !.uploads = Append(@, entry)]

\* The handler up to its first await: the early returns, then uploadEntry is
\* built; the image analysis (sharp) is awaited with `data` held in memory.
PostUploads(id, token, hasFile, checkItem) ==
    /\ LET name == nextUp + 1
           d == readData
           result == UploadCheck(d, id, token, hasFile, now)
           entry == [NoEntry EXCEPT !.id = name, !.inspectionId = id,
                       !.filename = name, !.checkItem = checkItem,
                       !.uploadedAt = now]
       IN /\ files' = MulterStore(files, hasFile, name)
          /\ IF result = "Ok"
             THEN inflight' = inflight \cup
                        {[kind |-> "upload", pc |-> "analysis", id |-> id,
                          data |-> d, entry |-> entry]}
             ELSE inflight' = inflight
          /\ last' = [NoLast EXCEPT !.op = "upload", !.id = id, !.token = token,
                        !.file = hasFile, !.result = result, !.at = now,
                        !.stored = IF hasFile THEN name ELSE 0]
          /\ nextUp' = IF hasFile THEN nextUp + 1 ELSE nextUp
    /\ UNCHANGED <<data, now, ticks, cfg, nextId, edits>>

\* what the EXIF parser and sharp made of the stored file
ExifOutcomes == {"absent", "null", "nogps", "near", "far"}
QualityOutcomes == {"absent", "null", "clean", "warned"}

\* ------------------------------------------------ image quality (sharp)
DarkThreshold == 40
MinWidth == 800
MinHeight == 600

RECURSIVE SumMeans(_)
\* stats.channels.reduce((sum, ch) => sum + ch.mean, 0)
SumMeans(channels) ==
    IF channels = <<>> THEN 0 ELSE Head(channels) + SumMeans(Tail(channels))

\* Math.round(sum / n): the nearest integer, halves upwards
RoundedMean(channels) ==
    (2 * SumMeans(channels) + Len(channels)) \div (2 * Len(channels))

\* mutant of IsDark: the test made on the rounded luminance that is stored
IsDarkRounded(channels) == RoundedMean(channels) < DarkThreshold

\* avgLuminance < 40, with avgLuminance = sum / channels.length unrounded
IsDark(channels) == SumMeans(channels) < DarkThreshold * Len(channels)

\* metadata.width < 800 || metadata.height < 600
IsLowRes(width, height) == width < MinWidth \/ height < MinHeight

\* warnings: [] and the two pushes, in this order
Warnings(isDark, isLowRes) ==
    (IF isDark THEN <<"Photo may be too dark">> ELSE <<>>)
        \o (IF isLowRes THEN <<"Resolution below 800x600">> ELSE <<>>)

\* uploadEntry.quality = {...}
Quality(channels, width, height) ==
    [width |-> width, height |-> height,
     avgLuminance |-> RoundedMean(channels),
     isDark |-> IsDark(channels), isLowRes |-> IsLowRes(width, height),
     warnings |-> Warnings(IsDark(channels), IsLowRes(width, height))]

\* The analysis of one image, given what sharp reports of it: the channel
\* means and the dimensions. The outcome "warned" of the upload handler is a
\* quality whose warnings are not empty, "clean" one whose warnings are.
AnalyzeQuality(channels, width, height) ==
    /\ last' = [NoLast EXCEPT !.op = "quality", !.at = now,
                  !.body = {[channels |-> channels,
                             quality |-> Quality(channels, width, height)]}]
    /\ UNCHANGED <<data, files, now, ticks, cfg, nextId, nextUp, edits, inflight>>

\* mutant of AutoDetect: the detector called for uploads without a category too
AutoDetectAnyUpload(entry) == cfg.roboflow

\* if (ROBOFLOW_API_KEY && ROBOFLOW_MODEL && uploadEntry.checkItem)
AutoDetect(entry) == cfg.roboflow /\ entry.checkItem # "none"

\* server.js:206-276: the analysis results are attached, the entry is pushed,
\* the document written, the status set and the document written again; then
\* either the detector is called (await) or the response is sent.
UploadWrite(r, exif, quality) ==
    /\ r \in inflight /\ r.kind = "upload" /\ r.pc = "analysis"
    /\ LET entry == [r.entry EXCEPT !.exif = exif, !.quality = quality]
           d == Submit(PushUpload(r.data, entry), r.id)
       IN /\ data' = d
          /\ IF AutoDetect(entry)
             THEN /\ inflight' = (inflight \ {r}) \cup
                        {[r EXCEPT !.pc = "detect", !.data = d, !.entry = entry]}
                  /\ last' = NoLast
             ELSE /\ inflight' = inflight \ {r}
                  /\ last' = [NoLast EXCEPT !.op = "uploaded", !.id = r.id,
                                !.result = "Ok", !.at = now]
    /\ UNCHANGED <<files, now, ticks, cfg, nextId, nextUp, edits>>

\* uploadEntry.detection = {...} on the entry pushed last into the handler's copy
AttachDetection(d, outcome) ==
    [d EXCEPT !.uploads[Len(d.uploads)].detection = outcome]

\* server.js:280-296: the detector answered (predictions found or an empty
\* list) or failed; on an answer the handler's copy is written a third time.
UploadDetect(r, outcome) ==
    /\ r \in inflight /\ r.kind = "upload" /\ r.pc = "detect"
    /\ IF outcome \in {"found", "empty"}
       THEN data' = AttachDetection(r.data, outcome)
       ELSE data' = data
    /\ inflight' = inflight \ {r}
    /\ last' = [NoLast EXCEPT !.op = "uploaded", !.id = r.id, !.result = "Ok", !.at = now]
    /\ UNCHANGED <<files, now, ticks, cfg, nextId, nextUp, edits>>

\* ---------------------------------------------- POST /api/inspections/:id/notify
NotifyCheck(d, id, token, hasKey, t) ==
    IF ~hasKey THEN "MissingKey" ELSE CheckToken(d, id, token, t)

PostNotify(id, token, hasKey, checkItem) ==
    /\ LET d == readData
           result == NotifyCheck(d, id, token, hasKey, now)
           entry == [NoEntry EXCEPT !.id = nextUp + 1, !.inspectionId = id,
                       !.checkItem = checkItem, !.uploadedAt = now]
       IN /\ data' = IF result = "Ok" THEN Submit(PushUpload(d, entry), id) ELSE data
          /\ last' = [NoLast EXCEPT !.op = "notify", !.id = id, !.token = token,
                        !.result = result, !.at = now]
          /\ nextUp' = IF result = "Ok" THEN nextUp + 1 ELSE nextUp
    /\ UNCHANGED <<files, now, ticks, cfg, nextId, edits, inflight>>

\* --------------------------------------------- POST /api/inspections/:id/presign
PresignCheck(d, id, token, s3Client, hasName, signed, t) ==
    IF ~s3Client THEN "NotConfigured"
    ELSE IF CheckToken(d, id, token, t) # "Ok" THEN CheckToken(d, id, token, t)
    ELSE IF ~hasName THEN "MissingFilename"
    ELSE IF ~signed THEN "PresignError"
    ELSE "Ok"

\* s3Client is fixed at start-up and read by this handler alone, which writes
\* nothing: each request is let to see either deployment.
PostPresign(id, token, s3Client, hasName, signed) ==
    /\ last' = [NoLast EXCEPT !.op = "presign", !.id = id, !.token = token,
                  !.result = PresignCheck(readData, id, token, s3Client, hasName, signed, now),
                  !.at = now]
    /\ UNCHANGED <<data, files, now, ticks, cfg, nextId, nextUp, edits, inflight>>

\* ---------------------------------------- POST /api/inspections/:id/mark-complete
\* mutant of SetStatus: the link renewed with the status
SetStatusRenew(d, id, status) ==
    [d EXCEPT !.inspections[FindIndex(d, id)].status = status,
              !.inspections[FindIndex(d, id)].tokenExpiry = 0]

SetStatus(d, id, status) == [d EXCEPT !.inspections[FindIndex(d, id)].status = status]

PostMarkComplete(id) ==
    /\ LET d == readData
           found == FindIndex(d, id) # 0
       IN /\ data' = IF found THEN SetStatus(d, id, "complete") ELSE data
          /\ edits' = IF found THEN edits + 1 ELSE edits
          /\ last' = [NoLast EXCEPT !.op = "mark-complete", !.id = id, !.at = now,
                        !.result = IF found THEN "Ok" ELSE "NotFound"]
    /\ UNCHANGED <<files, now, ticks, cfg, nextId, nextUp, inflight>>

\* --------------- POST /api/inspections/:id/tire and POST /api/inspections/:id
\* Both write fields the model does not keep (tire, buyerZip, buyerEmail, price,
\* vehicle, orderId, updatedAt) and answer with the whole inspection record.
PostUpdate(id) ==
    /\ LET d == readData
           found == FindIndex(d, id) # 0
       IN last' = [NoLast EXCEPT !.op = "update", !.id = id, !.at = now,
                     !.result = IF found THEN "Ok" ELSE "NotFound",
                     !.body = IF found THEN {Find(d, id).tokenHash} ELSE {}]
    /\ UNCHANGED <<data, files, now, ticks, cfg, nextId, nextUp, edits, inflight>>

\* ------------------------------------------------- PUT /api/inspections/:id
\* allowed = ['status', 'buyerZip', ...]: of the fields the model keeps only
\* status can be set, to whatever the payload holds ("keep": no status key).
PutStatuses == {"keep", "pending", "submitted", "flagged", "completed", "archived"}

PutInspection(id, status) ==
    /\ LET d == readData
           found == FindIndex(d, id) # 0
           d1 == IF found /\ status # "keep" THEN SetStatus(d, id, status) ELSE d
       IN /\ data' = d1
          /\ edits' = IF d1 # d THEN edits + 1 ELSE edits
          /\ last' = [NoLast EXCEPT !.op = "put", !.id = id, !.at = now,
                        !.result = IF found THEN "Ok" ELSE "NotFound",
                        !.body = IF found THEN {Find(d1, id).tokenHash} ELSE {}]
    /\ UNCHANGED <<files, now, ticks, cfg, nextId, nextUp, inflight>>

\* ------------------------------- POST /api/inspections/:id/generate-ai-report
\* ----------------------------------- POST /api/inspections/:id/generate-pdf
\* Both read the document, await an external call (OpenAI, Puppeteer) and then
\* set one field of the inspection in their copy and write the copy back.
PostGenerate(kind, id, configured) ==
    /\ LET d == readData
           result == IF FindIndex(d, id) = 0 THEN "NotFound"
                     ELSE IF ~configured THEN "NotConfigured"
                     ELSE "Ok"
       IN /\ IF result = "Ok"
             THEN /\ inflight' = inflight \cup
                        {[kind |-> kind, pc |-> "await", id |-> id, data |-> d,
                          entry |-> NoEntry]}
                  /\ last' = NoLast
             ELSE /\ inflight' = inflight
                  /\ last' = [NoLast EXCEPT !.op = kind, !.id = id, !.at = now,
                                !.result = result]
    /\ UNCHANGED <<data, files, now, ticks, cfg, nextId, nextUp, edits>>

\* insp.aiReport = {..., reviewed: false}  /  insp.report = {path, createdAt}
AttachReport(d, kind, id) ==
    IF kind = "ai-report"
    THEN [d EXCEPT !.inspections[FindIndex(d, id)].aiReport = "draft"]
    ELSE [d EXCEPT !.inspections[FindIndex(d, id)].report = TRUE]

GenerateDone(r, ok) ==
    /\ r \in inflight /\ r.kind \in {"ai-report", "pdf"}
    /\ data' = IF ok THEN AttachReport(r.data, r.kind, r.id) ELSE data
    /\ edits' = IF ok THEN edits + 1 ELSE edits
    /\ inflight' = inflight \ {r}
    /\ last' = [NoLast EXCEPT !.op = r.kind, !.id = r.id, !.at = now,
                  !.result = IF ok THEN "Ok" ELSE "Failed"]
    /\ UNCHANGED <<files, now, ticks, cfg, nextId, nextUp>>

\* -------------------------------- POST /api/inspections/:id/approve-report
\* mutant of Approve: the status set, the report left unreviewed
ApproveStatusOnly(d, id) ==
    [d EXCEPT !.inspections[FindIndex(d, id)].status = "completed"]

\* insp.aiReport.reviewed = true; insp.status = 'completed'
Approve(d, id) ==
    [d EXCEPT !.inspections[FindIndex(d, id)].aiReport = "reviewed",
              !.inspections[FindIndex(d, id)].status = "completed"]

PostApprove(id) ==
    /\ LET d == readData
           result == IF FindIndex(d, id) = 0 THEN "NotFound"
                     ELSE IF Find(d, id).aiReport = "none" THEN "NoReport"
                     ELSE "Ok"
       IN /\ data' = IF result = "Ok" THEN Approve(d, id) ELSE data
          /\ edits' = IF result = "Ok" THEN edits + 1 ELSE edits
          /\ last' = [NoLast EXCEPT !.op = "approve", !.id = id, !.at = now,
                        !.result = result]
    /\ UNCHANGED <<files, now, ticks, cfg, nextId, nextUp, inflight>>

\* ------------------------------------ GET /api/inspections/:id/fraud-score
\* data.vinRecords?.find(v => v.vin === insp.vin): the first record of that
\* VIN, or none.  A record is kept as [vin, hasReading, mileage, ownershipCount]:
\* whether odometer.lastReading is there, its mileage, and ownership.count.
NoHistory == [vin |-> "absent", found |-> FALSE, hasReading |-> FALSE,
              mileage |-> 0, ownershipCount |-> 0]

\* mutant of History: the first record, whatever its VIN
HistoryAny(d, vin) ==
    IF d.vinRecords = <<>> THEN NoHistory
    ELSE d.vinRecords[1]

\* data.vinRecords?.find(v => v.vin === insp.vin)
History(d, vin) ==
    IF \E k \in 1..Len(d.vinRecords) : d.vinRecords[k].vin = vin
    THEN LET first == CHOOSE k \in 1..Len(d.vinRecords) :
                         /\ d.vinRecords[k].vin = vin
                         /\ \A j \in 1..(k - 1) : d.vinRecords[j].vin # vin
         IN d.vinRecords[first]
    ELSE NoHistory

OcrVin(u) == u.ocrVin

\* server.js:1172  lowQualityCount > 5
QualityLimit == 5

\* server.js:1141  historyMileage - 5000
MileageTolerance == 5000

\* the six signals, in the order the code evaluates them
Signal1(insp, ups) ==
    /\ \E k \in 1..Len(ups) : ups[k].exif \in {"near", "far"}
    /\ insp.sellerZip
    /\ \E k \in 1..Len(ups) : ups[k].exif = "far"

Signal2(insp, ups, hist) ==
    /\ \E k \in 1..Len(ups) : ups[k].checkItem = "odometer"
    /\ hist.found /\ hist.hasReading
    /\ insp.odometerReading < hist.mileage - MileageTolerance

Signal3(insp, ups) ==
    /\ \E k \in 1..Len(ups) : ups[k].detection = "found"
    /\ ~insp.sellerDisclosedDamage

\* mutant of Signal4: any plate photo with a different VIN counts
Signal4AnyPlate(insp, ups) ==
    \E k \in 1..Len(ups) :
        /\ ups[k].checkItem = "vin_plate"
        /\ OcrVin(ups[k]) # "absent" /\ OcrVin(ups[k]) # insp.vin

\* uploads.find(u => u.checkItem === 'vin_plate'), then ocrVin && ocrVin !== insp.vin
Signal4(insp, ups) ==
    /\ \E k \in 1..Len(ups) : ups[k].checkItem = "vin_plate"
    /\ LET first == CHOOSE k \in 1..Len(ups) :
                       /\ ups[k].checkItem = "vin_plate"
                       /\ \A j \in 1..(k - 1) : ups[j].checkItem # "vin_plate"
       IN OcrVin(ups[first]) # "absent" /\ OcrVin(ups[first]) # insp.vin

Signal5(hist) == hist.found /\ hist.ownershipCount >= 2

\* mutant of Signal6: the limit itself already counts
Signal6AtLimit(ups) ==
    Cardinality({k \in 1..Len(ups) : ups[k].quality = "warned"}) >= QualityLimit

Signal6(ups) ==
    Cardinality({k \in 1..Len(ups) : ups[k].quality = "warned"}) > QualityLimit

\* mutant of Weight: the image-quality signal lowers the score
WeightNegative(n) ==
    CASE n = 1 -> 25 [] n = 2 -> 30 [] n = 3 -> 20
      [] n = 4 -> 35 [] n = 5 -> 15 [] n = 6 -> -10

\* score += 25 / 30 / 20 / 35 / 15 / 10
Weight(n) ==
    CASE n = 1 -> 25 [] n = 2 -> 30 [] n = 3 -> 20
      [] n = 4 -> 35 [] n = 5 -> 15 [] n = 6 -> 10

\* mutant of Triggered: signal 3 does not look at the uploads
TriggeredNoUploads(insp, ups, hist) ==
    {n \in 1..6 : CASE n = 1 -> Signal1(insp, ups)
                    [] n = 2 -> Signal2(insp, ups, hist)
                    [] n = 3 -> ~insp.sellerDisclosedDamage
                    [] n = 4 -> Signal4(insp, ups)
                    [] n = 5 -> Signal5(hist)
                    [] n = 6 -> Signal6(ups)}

Triggered(insp, ups, hist) ==
    {n \in 1..6 : CASE n = 1 -> Signal1(insp, ups)
                    [] n = 2 -> Signal2(insp, ups, hist)
                    [] n = 3 -> Signal3(insp, ups)
                    [] n = 4 -> Signal4(insp, ups)
                    [] n = 5 -> Signal5(hist)
                    [] n = 6 -> Signal6(ups)}

RECURSIVE SumWeights(_)
SumWeights(S) == IF S = {} THEN 0
                 ELSE LET n == CHOOSE x \in S : TRUE IN Weight(n) + SumWeights(S \ {n})

\* mutant of Min: no cap
MinFirst(a, b) == a

Min(a, b) == IF a < b THEN a ELSE b

\* server.js:1178  score = Math.min(score, 100)
MaxScore == 100

\* let score = 0; score += ...; score = Math.min(score, 100)
ScoreOf(trig) == Min(SumWeights(trig), MaxScore)

\* mutant of Level: the upper threshold read as "more than"
LevelAbove(score) ==
    IF score < 30 THEN "low" ELSE IF score <= 70 THEN "medium" ELSE "high"

\* level: score < 30 ? 'low' : score < 70 ? 'medium' : 'high'
Level(score) == IF score < 30 THEN "low" ELSE IF score < 70 THEN "medium" ELSE "high"

\* autoFlag: score >= 70
AutoFlag(score) == score >= 70

\* mutant of Flags: the messages collected in the opposite order
FlagsReversed(trig) == SelectSeq(<<6, 5, 4, 3, 2, 1>>, LAMBDA n : n \in trig)

\* flags.push(...) in each triggered if-block, in the order of the blocks; a
\* flag is kept as the number of its signal
Flags(trig) == SelectSeq(<<1, 2, 3, 4, 5, 6>>, LAMBDA n : n \in trig)

\* mutant of FraudAssessment: the new score added to the stored one
FraudAssessmentMerged(insp, ups, hist, t) ==
    LET trig == Triggered(insp, ups, hist)
        prior == IF insp.fraudScore.score > 0 THEN insp.fraudScore.score ELSE 0
        score == Min(prior + SumWeights(trig), MaxScore)
    IN [score |-> score, level |-> Level(score), autoFlag |-> AutoFlag(score),
        flags |-> Flags(trig), timestamp |-> t]

\* server.js:1119-1188
FraudAssessment(insp, ups, hist, t) ==
    LET trig == Triggered(insp, ups, hist)
        score == ScoreOf(trig)
    IN [score |-> score, level |-> Level(score), autoFlag |-> AutoFlag(score),
        flags |-> Flags(trig), timestamp |-> t]

\* data.uploads.filter(u => u.inspectionId === insp.id)
UploadsOf(d, id) == SelectSeq(d.uploads, LAMBDA u : u.inspectionId = id)

\* mutant of StoreAssessment: scoring also flags the inspection
StoreAssessmentFlag(d, id, result) ==
    [d EXCEPT !.inspections[FindIndex(d, id)].fraudScore = result,
              !.inspections[FindIndex(d, id)].status = "flagged"]

\* insp.fraudScore = result
StoreAssessment(d, id, result) ==
    [d EXCEPT !.inspections[FindIndex(d, id)].fraudScore = result]

GetFraudScore(id) ==
    /\ LET d == readData
           found == FindIndex(d, id) # 0
           insp == Find(d, id)
           result == FraudAssessment(insp, UploadsOf(d, id), History(d, insp.vin), now)
       IN /\ data' = IF found THEN StoreAssessment(d, id, result) ELSE data
          /\ edits' = IF found THEN edits + 1 ELSE edits
          /\ last' = [NoLast EXCEPT !.op = "fraud-score", !.id = id, !.at = now,
                        !.result = IF found THEN "Ok" ELSE "NotFound"]
    /\ UNCHANGED <<files, now, ticks, cfg, nextId, nextUp, inflight>>

\* The level and the flag of a given score, as the scoring handler derives them
\* (server.js:1184-1185).
Classify(score) ==
    /\ last' = [NoLast EXCEPT !.op = "classify", !.stored = score, !.at = now,
                  !.result = Level(score),
                  !.body = IF AutoFlag(score) THEN {"autoFlag"} ELSE {}]
    /\ UNCHANGED <<data, files, now, ticks, cfg, nextId, nextUp, edits, inflight>>

\* ------------------------------------------------- POST /api/roboflow/detect
\* data.uploads.findIndex(u => u.id === uploadId)
UploadIndex(d, uploadId) ==
    IF \E k \in 1..Len(d.uploads) : d.uploads[k].id = uploadId
    THEN CHOOSE k \in 1..Len(d.uploads) :
            /\ d.uploads[k].id = uploadId
            /\ \A j \in 1..(k - 1) : d.uploads[j].id # uploadId
    ELSE 0

\* The detect call on a stored upload, up to its await: 503 without the
\* detector, 404 for an unknown upload, else the provider is called.
PostDetect(uploadId) ==
    /\ LET d == readData
           result == IF ~cfg.roboflow THEN "NotConfigured"
                     ELSE IF UploadIndex(d, uploadId) = 0 THEN "NotFound"
                     ELSE "Ok"
       IN IF result = "Ok"
          THEN /\ inflight' = inflight \cup
                     {[kind |-> "detect", pc |-> "provider",
                       id |-> d.uploads[UploadIndex(d, uploadId)].inspectionId,
                       data |-> EmptyStore,
                       entry |-> [NoEntry EXCEPT !.id = uploadId]]}
               /\ last' = NoLast
          ELSE /\ inflight' = inflight
               /\ last' = [NoLast EXCEPT !.op = "detect", !.id = uploadId, !.at = now,
                             !.result = result]
    /\ UNCHANGED <<data, files, now, ticks, cfg, nextId, nextUp, edits>>

\* data.uploads[idx].detection = { provider, model, version, result, detectedAt }:
\* the provider's answer is stored under `result`, not as detection.predictions
WrapDetection(d, uploadId, outcome) ==
    IF UploadIndex(d, uploadId) = 0 THEN d
    ELSE [d EXCEPT !.uploads[UploadIndex(d, uploadId)].detection =
                       IF outcome = "found" THEN "result:found" ELSE "result:empty"]

\* The provider answered or failed: on an answer the document is read again,
\* the detection set on the upload and the document written.
DetectDone(r, outcome) ==
    /\ r \in inflight /\ r.kind = "detect"
    /\ data' = IF outcome = "error" THEN data
               ELSE WrapDetection(readData, r.entry.id, outcome)
    /\ inflight' = inflight \ {r}
    /\ last' = [NoLast EXCEPT !.op = "detect", !.id = r.entry.id, !.at = now,
                  !.result = IF outcome = "error" THEN "Failed" ELSE "Ok"]
    /\ UNCHANGED <<files, now, ticks, cfg, nextId, nextUp, edits>>

\* ------------------------------------------------------ POST /api/vin-records
\* record = { id, vin, decodeData, recallsData, safetyData, timestamp, createdAt }:
\* no odometer and no ownership field
VinRecord(vin) ==
    [vin |-> vin, found |-> TRUE, hasReading |-> FALSE, mileage |-> 0,
     ownershipCount |-> 0]

PostVinRecords(hasVin, vin) ==
    /\ LET d == readData
       IN /\ data' = IF hasVin THEN [d EXCEPT !.vinRecords = Append(@, VinRecord(vin))]
                     ELSE data
          /\ edits' = IF hasVin THEN edits + 1 ELSE edits
          /\ last' = [NoLast EXCEPT !.op = "vin-record", !.at = now,
                        !.result = IF hasVin THEN "Ok" ELSE "MissingVin"]
    /\ UNCHANGED <<files, now, ticks, cfg, nextId, nextUp, inflight>>

\* ---------------------------------------------------------- GET /api/vin/history
\* 400 without a vin, 503 without the key, else the provider is called; the
\* handler reads and writes nothing of the store.
GetVinHistory(hasVin, configured) ==
    /\ LET result == IF ~hasVin THEN "MissingVin"
                     ELSE IF ~configured THEN "NotConfigured"
                     ELSE "Ok"
       IN IF result = "Ok"
          THEN /\ inflight' = inflight \cup
                     {[kind |-> "history", pc |-> "provider", id |-> 0,
                       data |-> EmptyStore, entry |-> NoEntry]}
               /\ last' = NoLast
          ELSE /\ inflight' = inflight
               /\ last' = [NoLast EXCEPT !.op = "history", !.at = now, !.result = result]
    /\ UNCHANGED <<data, files, now, ticks, cfg, nextId, nextUp, edits>>

HistoryDone(r, ok) ==
    /\ r \in inflight /\ r.kind = "history"
    /\ inflight' = inflight \ {r}
    /\ last' = [NoLast EXCEPT !.op = "history", !.at = now,
                  !.result = IF ok THEN "Ok" ELSE "Failed"]
    /\ UNCHANGED <<data, files, now, ticks, cfg, nextId, nextUp, edits>>

\* res.json(...) reaches the client: the request recorded in `last` is over.
\* A client reads each response before the next step is taken, so `last`
\* always describes the step that has just happened.
Respond ==
    /\ last.op # "none"
    /\ last' = NoLast
    /\ UNCHANGED <<data, files, now, ticks, cfg, nextId, nextUp, edits, inflight>>

\* the model's bounds, as guards on the steps that grow the state
Events == nextId + nextUp + ticks + edits
CanGrow == Events < MaxEvents
CanCreate == CanGrow /\ nextId < MaxInspections
CanSuspend == Cardinality(inflight) < MaxInflight

\* no response is outstanding: the next request can be taken up
Ready == last.op = "none"

\* the store specification lets one handler at a time wait on an await
OneAtATime == inflight = {}

\* The token authority and the intake handlers, with every kind of request.
Next ==
    \/ Ready /\ CanGrow /\ Tick
    \/ Ready /\ CanCreate /\ PostInspections
    \/ Ready /\ GetInspections
    \/ Ready /\ \E id \in InspectionIds, token \in PresentedTokens : GetValidate(id, token)
    \/ Ready /\ CanGrow /\
                   \E id \in InspectionIds, token \in PresentedTokens, hasFile \in BOOLEAN,
                      checkItem \in {"none", "other"} :
                         /\ CanSuspend \/ UploadCheck(data, id, token, hasFile, now) # "Ok"
                         /\ PostUploads(id, token, hasFile, checkItem)
    \/ Ready /\ \E r \in inflight : UploadWrite(r, "nogps", "clean")
    \/ Ready /\ \E r \in inflight, outcome \in {"found", "empty", "error"} : UploadDetect(r, outcome)
    \/ Ready /\ CanGrow /\
                   \E id \in InspectionIds, token \in PresentedTokens, hasKey \in BOOLEAN :
                      PostNotify(id, token, hasKey, "none")
    \/ Ready /\ \E id \in InspectionIds, token \in PresentedTokens, s3Client \in BOOLEAN,
                   hasName \in BOOLEAN, signed \in BOOLEAN :
                      PostPresign(id, token, s3Client, hasName, signed)
    \/ Respond

\* Sellers uploading files of every kind with their own token: the EXIF parser
\* and sharp each return a result or throw, or the file cannot be read at all.
EnrichOutcomes ==
    ({"nogps", "null"} \X {"clean", "null"}) \cup {<<"absent", "absent">>}

NextEnrich ==
    \/ Ready /\ CanCreate /\ PostInspections
    \/ Ready /\ CanGrow /\ CanSuspend /\
                   \E id \in InspectionIds, checkItem \in {"none", "other"} :
                      PostUploads(id, Tok(id), TRUE, checkItem)
    \/ Ready /\ \E r \in inflight, o \in EnrichOutcomes : UploadWrite(r, o[1], o[2])
    \/ Ready /\ \E r \in inflight, outcome \in {"found", "error"} : UploadDetect(r, outcome)
    \/ Respond

\* Every handler that writes the store, the sellers presenting their own token
\* or none.
NextStore ==
    \/ Ready /\ CanGrow /\ Tick
    \/ Ready /\ CanCreate /\ PostInspections
    \/ Ready /\ GetInspections
    \/ Ready /\ \E id \in InspectionIds : GetValidate(id, Tok(id))
    \/ Ready /\ \E id \in InspectionIds, signed \in BOOLEAN :
                   PostPresign(id, Tok(id), TRUE, TRUE, signed)
    \/ Ready /\ CanGrow /\
                   \E id \in InspectionIds, checkItem \in {"none", "other"} :
                      \E token \in {NoToken, Tok(id)} :
                         /\ OneAtATime \/ UploadCheck(data, id, token, TRUE, now) # "Ok"
                         /\ PostUploads(id, token, TRUE, checkItem)
    \/ Ready /\ \E r \in inflight : UploadWrite(r, "nogps", "clean")
    \/ Ready /\ \E r \in inflight, outcome \in {"found", "error"} : UploadDetect(r, outcome)
    \/ Ready /\ CanGrow /\ \E id \in InspectionIds : PostNotify(id, Tok(id), TRUE, "none")
    \/ Ready /\ CanGrow /\ \E id \in InspectionIds : PostMarkComplete(id)
    \/ Ready /\ \E id \in InspectionIds : PostUpdate(id)
    \/ Ready /\ CanGrow /\ \E id \in InspectionIds, status \in PutStatuses : PutInspection(id, status)
    \/ Ready /\ OneAtATime /\
                   \E kind \in {"ai-report", "pdf"}, id \in InspectionIds, configured \in BOOLEAN :
                      PostGenerate(kind, id, configured)
    \/ Ready /\ \E r \in inflight, ok \in BOOLEAN : (ok => CanGrow) /\ GenerateDone(r, ok)
    \/ Ready /\ CanGrow /\ \E id \in InspectionIds : PostApprove(id)
    \/ Ready /\ CanGrow /\ \E id \in InspectionIds : GetFraudScore(id)
    \/ Respond

\* ------------------------------------------------------- scoring inputs
\* data.json as the scoring handler can find it at start-up (line 70 keeps an
\* existing file): one inspection with declared values, its uploads, and at
\* most one history record.
ScoredId == 1
UnknownId == 2

InputUpload(checkItem, exif, quality, detection, ocrVin) ==
    [NoEntry EXCEPT !.inspectionId = ScoredId, !.checkItem = checkItem,
                    !.exif = exif, !.quality = quality,
                    !.detection = detection, !.ocrVin = ocrVin]

Optional(S) == {<<>>} \cup {<<u>> : u \in S}

GpsUploads == Optional({InputUpload("other", e, "clean", "absent", "absent") :
                           e \in {"near", "far"}})
OdometerUploads == Optional({InputUpload("odometer", "nogps", "clean", "absent", "absent")})
PlateUpload(v) == InputUpload("vin_plate", "nogps", "clean", "absent", v)
\* no plate photo, one, or two of which the scoring reads the first
VinPlateUploads ==
    Optional({PlateUpload(v) : v \in {"absent", "VINA", "VINB"}})
        \cup {<<PlateUpload("absent"), PlateUpload("VINB")>>,
              <<PlateUpload("VINB"), PlateUpload("VINA")>>}
DetectionUploads == Optional({InputUpload("other", "nogps", "clean", d, "absent") :
                                 d \in {"found", "empty"}})
WarnedUploads ==
    {[k \in 1..n |-> InputUpload("other", "nogps", "warned", "absent", "absent")] :
        n \in {0, QualityLimit, QualityLimit + 1}}

\* uuidv4() ids: each upload its own
Numbered(ups) == [k \in 1..Len(ups) |-> [ups[k] EXCEPT !.id = k, !.filename = k]]

InputUploads ==
    {Numbered(g \o o \o v \o d \o w) :
        g \in GpsUploads, o \in OdometerUploads, v \in VinPlateUploads,
        d \in DetectionUploads, w \in WarnedUploads}

InputInspections ==
    {[NewInspection(ScoredId, Tok(ScoredId), 0) EXCEPT
         !.sellerZip = z, !.vin = v, !.odometerReading = o,
         !.sellerDisclosedDamage = dd] :
        z \in BOOLEAN, v \in {"absent", "VINA"}, o \in {45000, 47000},
        dd \in BOOLEAN}

InputHistories ==
    Optional({[vin |-> "VINA", found |-> TRUE, hasReading |-> TRUE, mileage |-> 52000,
               ownershipCount |-> c] : c \in {1, 2}})

InitScore ==
    /\ \E insp \in InputInspections, ups \in InputUploads, hist \in InputHistories :
          data = [inspections |-> <<[insp EXCEPT !.status =
                                        IF ups = <<>> THEN "pending" ELSE "submitted"]>>,
                  uploads |-> ups, vinRecords |-> hist]
    /\ files = {}
    /\ now = 0
    /\ ticks = 0
    /\ cfg = [roboflow |-> FALSE]
    /\ nextId = 0
    /\ nextUp = 0
    /\ edits = 0
    /\ inflight = {}
    /\ last = NoLast

\* Scoring runs on a store that nothing else changes, the clock moving on.
NextScore ==
    \/ Ready /\ CanGrow /\ Tick
    \/ Ready /\ CanGrow /\ \E id \in {ScoredId, UnknownId} : GetFraudScore(id)
    \/ Respond

\* The classification of every score, beside scoring runs on created inspections.
NextLevel ==
    \/ Ready /\ CanCreate /\ PostInspections
    \/ Ready /\ CanGrow /\ \E id \in InspectionIds : GetFraudScore(id)
    \/ Ready /\ \E score \in 0..MaxScore : Classify(score)
    \/ Respond

\* The operations through which the values read by the scoring come into a
\* store that starts empty: sellers upload with their own token, photos with
\* or without a far GPS position and quality warnings.
OpsOutcomes == {<<"nogps", "clean">>, <<"far", "warned">>}

NextOps ==
    \/ Ready /\ CanCreate /\ PostInspections
    \/ Ready /\ CanGrow /\ OneAtATime /\
                   \E id \in InspectionIds, checkItem \in {"none", "vin_plate"} :
                      PostUploads(id, Tok(id), TRUE, checkItem)
    \/ Ready /\ \E r \in inflight, o \in OpsOutcomes : UploadWrite(r, o[1], o[2])
    \/ Ready /\ \E r \in inflight, outcome \in {"found", "error"} : UploadDetect(r, outcome)
    \/ Ready /\ CanGrow /\ \E id \in InspectionIds : PostNotify(id, Tok(id), TRUE, "odometer")
    \/ Ready /\ OneAtATime /\ \E uploadId \in 1..MaxEvents : PostDetect(uploadId)
    \/ Ready /\ \E r \in inflight, outcome \in {"found", "empty", "error"} :
                   DetectDone(r, outcome)
    \/ Ready /\ CanGrow /\ \E hasVin \in BOOLEAN : PostVinRecords(hasVin, "VINA")
    \/ Ready /\ CanGrow /\ \E id \in InspectionIds : PostMarkComplete(id)
    \/ Ready /\ \E id \in InspectionIds : PostUpdate(id)
    \/ Ready /\ CanGrow /\ \E id \in InspectionIds : PutInspection(id, "flagged")
    \/ Ready /\ CanGrow /\ \E id \in InspectionIds : PostApprove(id)
    \/ Ready /\ CanGrow /\ \E id \in InspectionIds : GetFraudScore(id)
    \/ Respond

\* The handlers that call an external provider (the detector from the uploads
\* route and from the detect route, the vehicle-history lookup).
NextCalls ==
    \/ Ready /\ CanCreate /\ PostInspections
    \/ Ready /\ CanGrow /\ CanSuspend /\
                   \E id \in InspectionIds, checkItem \in {"none", "other"} :
                      PostUploads(id, Tok(id), TRUE, checkItem)
    \/ Ready /\ \E r \in inflight : UploadWrite(r, "nogps", "clean")
    \/ Ready /\ \E r \in inflight, outcome \in {"found", "error"} : UploadDetect(r, outcome)
    \/ Ready /\ CanSuspend /\ \E uploadId \in 1..MaxEvents : PostDetect(uploadId)
    \/ Ready /\ \E r \in inflight, outcome \in {"found", "error"} : DetectDone(r, outcome)
    \/ Ready /\ CanSuspend /\ \E hasVin \in BOOLEAN, configured \in BOOLEAN :
                   GetVinHistory(hasVin, configured)
    \/ Ready /\ \E r \in inflight, ok \in BOOLEAN : HistoryDone(r, ok)
    \/ Respond

\* What the server does by itself is done eventually: the local image
\* analysis ends and a response that is ready is sent. Nothing makes a
\* provider answer, and no handler sets a timer on its call.
FairCalls ==
    /\ WF_vars(Respond)
    /\ WF_vars(Ready /\ \E r \in inflight : UploadWrite(r, "nogps", "clean"))

\* images as sharp can report them: grey or three channels, means around the
\* darkness threshold, dimensions around 800 x 600
InputMeans == {0, 39, 40, 41, 255}
InputChannels == [1..1 -> InputMeans] \cup [1..3 -> InputMeans]
InputWidths == {1, 799, 800, 4000}
InputHeights == {1, 599, 600, 3000}

NextQuality ==
    \/ Ready /\ \E channels \in InputChannels, width \in InputWidths,
                   height \in InputHeights : AnalyzeQuality(channels, width, height)
    \/ Respond

Spec == Init /\ [][Next]_vars

SpecStore == Init /\ [][NextStore]_vars

SpecCalls == Init /\ [][NextCalls]_vars /\ FairCalls
SpecOps == Init /\ [][NextOps]_vars
SpecQuality == Init /\ [][NextQuality]_vars
SpecEnrich == Init /\ [][NextEnrich]_vars
SpecScore == InitScore /\ [][NextScore]_vars

SpecLevel == Init /\ [][NextLevel]_vars

\* ======================================================================
\* Properties
\* ======================================================================
TokenOps == {"validate", "upload", "notify", "presign"}
IssuedTokens == {Tok(k) : k \in 1..MaxInspections}
Exists(id) == FindIndex(data, id) # 0
Inspections == {data.inspections[k] : k \in 1..Len(data.inspections)}
TokenMatches(id, token) == token # NoToken /\ hashToken(token) = Find(data, id).tokenHash
UploadCount(id) == Len(UploadsOf(data, id))

\* C1: validate, upload, notify and presign answer with success only when a
\* token was presented, its hash equals the stored tokenHash of the named
\* inspection, and the time of the request is not after tokenExpiry.
C1_FailClosed ==
    (last.op \in TokenOps /\ last.result = "Ok") =>
        /\ Exists(last.id)
        /\ last.token # NoToken
        /\ hashToken(last.token) = Find(data, last.id).tokenHash
        /\ last.at <= Find(data, last.id).tokenExpiry

\* a request accepted at the very instant of expiry
C1_Witness ==
    /\ last.op \in {"upload", "notify"} /\ last.result = "Ok"
    /\ last.at = Find(data, last.id).tokenExpiry

\* C2 as stated: after expiry every presented token, matching or not, is
\* answered TokenExpired.
C2_ExpiredWhateverHash ==
    (/\ last.op = "validate" /\ Exists(last.id) /\ last.token # NoToken
     /\ last.at > Find(data, last.id).tokenExpiry)
        => last.result = "TokenExpired"

\* C2 amended: the hash is compared first.  A presented token that does not
\* match is answered InvalidToken whether or not the link has expired; a
\* matching token is answered TokenExpired after expiry and success up to and
\* including the instant of expiry.
C2_HashBeforeExpiry ==
    (last.op = "validate" /\ Exists(last.id) /\ last.token # NoToken) =>
        last.result = IF ~TokenMatches(last.id, last.token) THEN "InvalidToken"
                      ELSE IF last.at > Find(data, last.id).tokenExpiry THEN "TokenExpired"
                      ELSE "Ok"

\* the right token presented after expiry
C2_Witness ==
    /\ last.op = "validate" /\ last.result = "TokenExpired"
    /\ last.token = Tok(last.id)

\* C3: once now > tokenExpiry, an upload or notify request evaluated from then
\* on is not accepted, and the step that evaluates it changes neither the
\* store nor the set of admitted uploads; every stored upload of an inspection
\* was admitted no later than the inspection's expiry.
C3_AdmittedInTime ==
    /\ \A k \in 1..Len(data.uploads) :
          Exists(data.uploads[k].inspectionId) =>
             data.uploads[k].uploadedAt <= Find(data, data.uploads[k].inspectionId).tokenExpiry
    /\ (/\ last.op \in {"upload", "notify"} /\ Exists(last.id)
        /\ last.at > Find(data, last.id).tokenExpiry) => last.result # "Ok"

C3_LateIntakeInert ==
    (/\ last'.op \in {"upload", "notify"} /\ Exists(last'.id)
     /\ now > Find(data, last'.id).tokenExpiry)
        => data' = data /\ inflight' = inflight

C3_NoIntakeAfterExpiry == []C3_AdmittedInTime /\ [][C3_LateIntakeInert]_vars

\* the inspection's own token and a file, presented after expiry
C3_Witness ==
    /\ last.op = "upload" /\ last.result = "TokenExpired" /\ last.file
    /\ last.token = Tok(last.id)

\* C4: a validate request changes nothing, the validation step of an upload
\* leaves the store unchanged, and the token is never consumed or rotated:
\* whatever was uploaded so far, the token issued for an inspection validates
\* as long as now <= tokenExpiry.
C4_TokenStillValid ==
    \A insp \in Inspections :
        now <= insp.tokenExpiry => CheckToken(data, insp.id, Tok(insp.id), now) = "Ok"

C4_ValidationInert ==
    /\ last'.op = "validate" => data' = data /\ files' = files /\ inflight' = inflight
    /\ last'.op = "upload" => data' = data

C5_SetAtCreation ==
    \A insp \in Inspections :
        /\ insp.tokenHash = hashToken(Tok(insp.id))
        /\ insp.tokenExpiry >= TokenTTL /\ insp.tokenExpiry <= now + TokenTTL

C5_Kept ==
    /\ \A k \in 1..Len(data.inspections), j \in 1..Len(data'.inspections) :
          data.inspections[k].id = data'.inspections[j].id =>
             /\ data'.inspections[j].tokenHash = data.inspections[k].tokenHash
             /\ data'.inspections[j].tokenExpiry = data.inspections[k].tokenExpiry
    /\ last'.op = "create" => Find(data', last'.id).tokenExpiry = now + TokenTTL

C5_TokenFieldsImmutable == []C5_SetAtCreation /\ [][C5_Kept]_vars

\* an inspection that was scored and whose report was approved, after time passed
C5_Witness ==
    \E insp \in Inspections :
        /\ insp.status = "completed" /\ insp.aiReport = "reviewed"
        /\ now > insp.createdAt

\* C6: the store, and every copy of it a handler holds, keeps only the hash of
\* a token; the plaintext token is in the response of the create request and
\* in no other response.
C6_PlaintextOnlyAtCreate ==
    /\ \A insp \in Inspections : insp.tokenHash \notin IssuedTokens
    /\ \A r \in inflight : \A k \in 1..Len(r.data.inspections) :
          r.data.inspections[k].tokenHash \notin IssuedTokens
    /\ last.op # "create" => last.body \cap IssuedTokens = {}
    /\ last.op = "create" => last.body = {Tok(last.id)}

\* a response that carries inspection records
C6_Witness ==
    /\ last.op \in {"list", "put", "update"}
    /\ last.body # {}
    /\ Len(data.uploads) > 0

C8_IngestErrorOrder ==
    last.op = "upload" =>
        /\ last.result = "NotFound" <=> ~Exists(last.id)
        /\ (Exists(last.id) /\ ~TokenMatches(last.id, last.token))
              => last.result \in {"MissingToken", "InvalidToken"}
        /\ (/\ Exists(last.id) /\ TokenMatches(last.id, last.token)
            /\ last.at > Find(data, last.id).tokenExpiry)
              => last.result = "TokenExpired"
        /\ last.result = "MissingFile" <=>
              /\ Exists(last.id) /\ TokenMatches(last.id, last.token)
              /\ last.at <= Find(data, last.id).tokenExpiry
              /\ ~last.file

\* a request with three defects: wrong token, expired link, no file
C8_Witness ==
    /\ last.op = "upload" /\ Exists(last.id) /\ ~last.file
    /\ last.token \in IssuedTokens \ {Tok(last.id)}
    /\ last.at > Find(data, last.id).tokenExpiry
    /\ last.result = "InvalidToken"

\* C9 as stated: a rejected upload request has left no file in file storage.
C9_RejectedStoresNoFile ==
    (last.op = "upload" /\ last.result # "Ok" /\ last.file) => last.stored \notin files

\* C10: an inspection is created pending; a step that commits an admitted
\* upload (the upload handler's write, or notify) to an inspection whose
\* stored status is pending or submitted leaves it submitted.
C10_Commits(id) ==
    \/ last'.op = "notify" /\ last'.result = "Ok" /\ last'.id = id
    \/ \E r \in inflight :
          r.kind = "upload" /\ r.pc = "analysis" /\ r.id = id /\ r \notin inflight'

C10_Step ==
    /\ last'.op = "create" => Find(data', last'.id).status = "pending"
    /\ \A id \in InspectionIds :
          C10_Commits(id) =>
             /\ FindIndex(data', id) # 0
             /\ Len(UploadsOf(data', id)) >= 1
             /\ (Exists(id) /\ Find(data, id).status \in {"pending", "submitted"})
                   => Find(data', id).status = "submitted"

C10_PendingToSubmitted == [][C10_Step]_vars

\* the second upload of an inspection has been committed
C10_Witness ==
    /\ last.op = "uploaded" /\ Exists(last.id)
    /\ UploadCount(last.id) >= 2
    /\ Find(data, last.id).status = "submitted"

\* C11 as stated: a step that commits an admitted upload to an inspection whose
\* stored status is not pending leaves that status as it is, and a rejected
\* upload or notify request changes no inspection's status.
C11_Step ==
    /\ \A id \in InspectionIds :
          (/\ C10_Commits(id) /\ Exists(id) /\ FindIndex(data', id) # 0
           /\ Find(data, id).status # "pending")
             => Find(data', id).status = Find(data, id).status
    /\ (last'.op \in {"upload", "notify"} /\ last'.result # "Ok") =>
          \A id \in InspectionIds :
             (Exists(id) /\ FindIndex(data', id) # 0)
                => Find(data', id).status = Find(data, id).status

C11_IntakeOnlySubmits == [][C11_Step]_vars

\* C12 as stated: an inspection whose stored assessment has autoFlag set
\* (score >= 70) has status flagged.
C12_AutoFlagSetsFlagged ==
    \A insp \in Inspections :
        (insp.fraudScore # NoScore /\ insp.fraudScore.autoFlag) => insp.status = "flagged"

\* C13 as stated: a step after which a stored inspection is completed, and
\* before which it was not, is a step of approve-report.
C13_Step ==
    \A id \in InspectionIds :
        (/\ Exists(id) /\ FindIndex(data', id) # 0
         /\ Find(data, id).status # "completed"
         /\ Find(data', id).status = "completed")
           => last'.op = "approve" /\ last'.id = id

C13_CompletedOnlyByApproval == [][C13_Step]_vars

\* C14 as stated: every stored inspection's status is one of pending,
\* submitted, flagged, completed.
C14_StatusInLifecycle ==
    \A insp \in Inspections :
        insp.status \in {"pending", "submitted", "flagged", "completed"}

Scored == {insp \in Inspections : insp.fraudScore # NoScore}
\* the signals that hold for a stored inspection, its uploads and its history
Holding(insp) == Triggered(insp, UploadsOf(data, insp.id), History(data, insp.vin))
Points(trig, n, w) == IF n \in trig THEN w ELSE 0
WeightedSum(trig) ==
    Points(trig, 1, 25) + Points(trig, 2, 30) + Points(trig, 3, 20)
        + Points(trig, 4, 35) + Points(trig, 5, 15) + Points(trig, 6, 10)

\* C15: the score of every stored assessment is the sum of the weights 25, 30,
\* 20, 35, 15, 10 of the signals that hold for the inspection, and 100 when
\* that sum is more than 100.
C15_ScoreIsCappedSum ==
    \A insp \in Scored :
        LET sum == WeightedSum(Holding(insp)) IN
        insp.fraudScore.score = IF sum > 100 THEN 100 ELSE sum

\* all six signals hold: 135 points, score 100
C15_Witness ==
    \E insp \in Scored :
        /\ Holding(insp) = 1..6
        /\ insp.fraudScore.score = 100

\* C16: for every score from 0 to 100 the level is low below 30, medium from
\* 30 to 69 and high from 70, and autoFlag is set exactly from 70; in every
\* stored assessment autoFlag is set exactly when the level is high.
C16_LevelThresholds ==
    /\ last.op = "classify" =>
          /\ last.result = "low" <=> last.stored < 30
          /\ last.result = "medium" <=> (30 <= last.stored /\ last.stored < 70)
          /\ last.result = "high" <=> last.stored >= 70
          /\ last.body # {} <=> last.stored >= 70
    /\ \A insp \in Scored :
          /\ insp.fraudScore.level \in {"low", "medium", "high"}
          /\ insp.fraudScore.autoFlag <=> insp.fraudScore.level = "high"

\* the score just below the threshold
C16_Witness ==
    /\ last.op = "classify" /\ last.stored = 69
    /\ last.result = "medium" /\ last.body = {}

\* C17: the flags of every stored assessment name exactly the signals that
\* hold for the inspection, each once, in the order 1 to 6.
C17_FlagsInSignalOrder ==
    \A insp \in Scored :
        LET f == insp.fraudScore.flags IN
        /\ \A i \in 1..Len(f), j \in 1..Len(f) : i < j => f[i] < f[j]
        /\ {f[i] : i \in 1..Len(f)} = Holding(insp)

\* signals 1, 4 and 6 hold and the others do not
C17_Witness ==
    \E insp \in Scored : insp.fraudScore.flags = <<1, 4, 6>>

\* C18 as stated: a scoring run on an inspection that has an assessment, its
\* inputs unchanged, stores an assessment equal to the one it replaces in every
\* field, the computation instant included.
C18_RerunStep ==
    \A id \in InspectionIds :
        (/\ last'.op = "fraud-score" /\ last'.result = "Ok" /\ last'.id = id
         /\ Find(data, id).fraudScore # NoScore)
           => Find(data', id).fraudScore = Find(data, id).fraudScore

C18_AmendedStep ==
    \A id \in InspectionIds :
        (/\ last'.op = "fraud-score" /\ last'.result = "Ok" /\ last'.id = id
         /\ Find(data, id).fraudScore # NoScore)
           => /\ [Find(data', id).fraudScore EXCEPT !.timestamp = 0]
                    = [Find(data, id).fraudScore EXCEPT !.timestamp = 0]
              /\ Find(data', id).fraudScore.timestamp = now

C19_MonotoneInRange ==
    \A insp \in Scored :
        LET trig == Holding(insp) IN
        /\ 0 <= insp.fraudScore.score /\ insp.fraudScore.score <= 100
        /\ \A n \in (1..6) \ trig : ScoreOf(trig \cup {n}) >= insp.fraudScore.score

\* the cap reached with a signal to spare
C19_Witness ==
    \E insp \in Scored :
        /\ insp.fraudScore.score = 100
        /\ Holding(insp) # 1..6

\* C20: an inspection scored with no uploads and no history record has score
\* 0, level low, autoFlag false and no flags, whatever it declares.
C20_NothingToScore ==
    \A insp \in Scored :
        (UploadsOf(data, insp.id) = <<>> /\ ~History(data, insp.vin).found) =>
            /\ insp.fraudScore.score = 0
            /\ insp.fraudScore.level = "low"
            /\ ~insp.fraudScore.autoFlag
            /\ insp.fraudScore.flags = <<>>

\* declared values present, nothing uploaded, no history
C20_Witness ==
    \E insp \in Scored :
        /\ UploadsOf(data, insp.id) = <<>> /\ data.vinRecords = <<>>
        /\ insp.sellerZip /\ insp.vin = "VINA" /\ insp.odometerReading = 45000
        /\ ~insp.sellerDisclosedDamage

\* the uploads of a stored inspection that carry a given category
Categorised(insp, item) ==
    SelectSeq(UploadsOf(data, insp.id), LAMBDA u : u.checkItem = item)
FlagSet(insp) == {insp.fraudScore.flags[k] : k \in 1..Len(insp.fraudScore.flags)}

\* C21: signal 4 is flagged exactly when the inspection's vin_plate upload
\* (the first, if there are several) carries a recognized VIN different from
\* the declared VIN; a recognized VIN equal to the declared one, or none, does
\* not flag it; flagged alone it gives score 35, level medium, autoFlag false
\* and the single VIN-mismatch flag.
C21_VinMismatch ==
    \A insp \in Scored :
        LET plates == Categorised(insp, "vin_plate") IN
        /\ 4 \in FlagSet(insp) <=>
              /\ plates # <<>>
              /\ plates[1].ocrVin # "absent"
              /\ plates[1].ocrVin # insp.vin
        /\ FlagSet(insp) = {4} =>
              /\ insp.fraudScore.score = 35
              /\ insp.fraudScore.level = "medium"
              /\ ~insp.fraudScore.autoFlag
              /\ insp.fraudScore.flags = <<4>>

\* a plate that reads another VIN than the declared one, and nothing else
C21_Witness ==
    \E insp \in Scored :
        /\ insp.vin = "VINA"
        /\ Categorised(insp, "vin_plate") # <<>>
        /\ Categorised(insp, "vin_plate")[1].ocrVin = "VINB"
        /\ insp.fraudScore.flags = <<4>>
        /\ insp.fraudScore.score = 35

\* C22: whenever a history record exists whose latest odometer reading exceeds
\* the declared mileage by 5,000 or more, signal 2 is flagged, whatever the
\* inspection's uploads are.
C22_HistoryAloneTriggers ==
    \A insp \in Scored :
        LET hist == History(data, insp.vin) IN
        (hist.found /\ hist.hasReading
            /\ hist.mileage - insp.odometerReading >= 5000) =>
                2 \in FlagSet(insp)

\* C23: signal 6 is flagged exactly when more than 5 uploads of the inspection
\* carry a quality warning (not with 5, with 6); flagged alone it gives score
\* 10 and level low.
C23_QualityAboveFive ==
    \A insp \in Scored :
        LET ups == UploadsOf(data, insp.id)
            warned == Cardinality({k \in 1..Len(ups) : ups[k].quality = "warned"})
        IN /\ 6 \in FlagSet(insp) <=> warned > 5
           /\ FlagSet(insp) = {6} =>
                 /\ insp.fraudScore.score = 10
                 /\ insp.fraudScore.level = "low"
                 /\ ~insp.fraudScore.autoFlag

\* six warned uploads and no other signal
C23_Witness ==
    \E insp \in Scored :
        /\ Len(UploadsOf(data, insp.id)) = 6
        /\ \A k \in 1..6 : UploadsOf(data, insp.id)[k].quality = "warned"
        /\ insp.fraudScore.flags = <<6>>
        /\ insp.fraudScore.score = 10

\* the handler r, suspended on an await, takes its next step
Resumes(r) == r \in inflight /\ r \notin inflight'
\* the ids of the records of an inspection stored through the uploads route
UploadedIds(d, id) ==
    LET ups == SelectSeq(UploadsOf(d, id), LAMBDA u : u.filename # 0)
    IN [k \in 1..Len(ups) |-> ups[k].id]
Range(seq) == {seq[k] : k \in 1..Len(seq)}
Ascending(seq) == \A j, k \in 1..Len(seq) : j < k => seq[j] < seq[k]

C24_Step ==
    \A r \in inflight :
        (r.kind = "upload" /\ Resumes(r)) =>
            Range(UploadedIds(data, r.id)) \subseteq Range(UploadedIds(data', r.id))

\* C24: when an upload request to an inspection completes a step, every
\* Upload record already stored for that inspection by another upload
\* request is still in the store.
C24_NoLostUpload == [][C24_Step]_vars

C25_Step ==
    \A r \in inflight :
        Resumes(r) =>
            \A b \in InspectionIds \ {r.id} :
                Exists(b) =>
                    /\ FindIndex(data', b) # 0
                    /\ Find(data', b) = Find(data, b)
                    /\ UploadsOf(data', b) = UploadsOf(data, b)

\* C25: a write made on behalf of inspection A leaves the record and the
\* uploads of every other inspection B exactly as they were.
C25_OtherInspectionsUntouched == [][C25_Step]_vars

C26_Step ==
    \A r \in inflight :
        (r.kind = "upload" /\ r.pc = "analysis" /\ Resumes(r)) =>
            last'.op = "uploaded" /\ last'.result = "Ok"

\* C26: the step of the upload handler that stores the Upload also sends the
\* successful response; the handler never waits for the detector first.
C26_ResponseNotBehindDetector == [][C26_Step]_vars

C28_Step ==
    \A r \in inflight :
        (r.kind = "upload" /\ Resumes(r)) =>
            \A k \in 1..Len(data.uploads), j \in 1..Len(data'.uploads) :
                (/\ data.uploads[k].id = data'.uploads[j].id
                 /\ data.uploads[k].id # r.entry.id
                 /\ data.uploads[k].inspectionId = r.id) =>
                    /\ data.uploads[k].exif # "absent" =>
                          data'.uploads[j].exif = data.uploads[k].exif
                    /\ data.uploads[k].quality # "absent" =>
                          data'.uploads[j].quality = data.uploads[k].quality
                    /\ data.uploads[k].detection # "absent" =>
                          data'.uploads[j].detection = data.uploads[k].detection

\* C28: a step of the handler of one upload never changes an exif, quality or
\* detection field already set on another Upload of the same inspection.
C28_SetFieldsKept == [][C28_Step]_vars

C30_Step ==
    \A r \in inflight :
        (r.kind = "upload" /\ r.pc = "analysis" /\ Resumes(r)) =>
            /\ Ascending(UploadedIds(data', r.id))
            /\ Range(UploadedIds(data', r.id)) =
                  Range(UploadedIds(data, r.id)) \cup {r.entry.id}

\* C30: storing an upload leaves the inspection's Upload records in arrival
\* order: the records stored before, with the new one at the place of its
\* arrival, also when a later arrival was stored first.
C30_ArrivalOrder == [][C30_Step]_vars

C27_Step ==
    \A r \in inflight :
        (r.kind = "upload" /\ r.pc = "analysis" /\ Resumes(r)) =>
            LET n == Len(data'.uploads) IN
            /\ n = Len(r.data.uploads) + 1
            /\ data'.uploads[n].id = r.entry.id
            /\ data'.uploads[n].exif \in ExifOutcomes
            /\ data'.uploads[n].quality \in QualityOutcomes
            /\ last'.op = "uploaded" \/ \E q \in inflight' : q.entry.id = r.entry.id

C27_Answer == last.op = "uploaded" => last.result = "Ok"

NoHistoryFor(insp) ==
    \A k \in 1..Len(data.vinRecords) : data.vinRecords[k].vin # insp.vin

C29_Step ==
    last'.op = "fraud-score" =>
        IF Exists(last'.id)
        THEN /\ last'.result = "Ok"
             /\ Find(data', last'.id).fraudScore # NoScore
             /\ Find(data', last'.id).fraudScore.timestamp = now
        ELSE /\ last'.result = "NotFound"
             /\ data' = data

C29_WithoutHistory ==
    \A insp \in Scored :
        NoHistoryFor(insp) =>
            LET ups == UploadsOf(data, insp.id)
                plates == Categorised(insp, "vin_plate")
                warned == Cardinality({k \in 1..Len(ups) : ups[k].quality = "warned"})
            IN /\ 2 \notin FlagSet(insp) /\ 5 \notin FlagSet(insp)
               /\ 1 \in FlagSet(insp) <=>
                     insp.sellerZip /\ \E k \in 1..Len(ups) : ups[k].exif = "far"
               /\ 3 \in FlagSet(insp) <=>
                     /\ ~insp.sellerDisclosedDamage
                     /\ \E k \in 1..Len(ups) : ups[k].detection = "found"
               /\ 4 \in FlagSet(insp) <=>
                     /\ plates # <<>>
                     /\ plates[1].ocrVin \notin {"absent", insp.vin}
               /\ 6 \in FlagSet(insp) <=> warned > 5

\* C29: a scoring request answers NotFound, leaving the store as it was,
\* exactly when the inspection does not exist, and otherwise stores an
\* assessment; for an inspection with no history record signals 2 and 5 are
\* not flagged and signals 1, 3, 4 and 6 are flagged exactly when they hold.
C29_FailsOnlyNotFound == []C29_WithoutHistory /\ [][C29_Step]_vars

\* all four history-free signals flagged for an inspection without history
C29_Witness ==
    \E insp \in Scored :
        /\ NoHistoryFor(insp)
        /\ FlagSet(insp) = {1, 3, 4, 6}

\* the inspection has a stored upload whose response has been sent
Acknowledged(id) ==
    /\ Ready
    /\ UploadsOf(data, id) # <<>>
    /\ \A r \in inflight : r.kind = "upload" => r.id # id

C31_Step ==
    \A id \in InspectionIds :
        (/\ Exists(id) /\ Acknowledged(id)
         /\ Find(data, id).status # "pending"
         /\ last'.op # "put"
         /\ FindIndex(data', id) # 0) =>
            Find(data', id).status # "pending"

\* C31: once the response to a successful upload has been sent, the
\* inspection is no longer pending, and no step other than an admin status
\* change makes it pending again: every later read sees it submitted.
C31_SubmittedBeforeResponse == [][C31_Step]_vars

\* C32: every stored Upload carries its exif, quality and detection fields,
\* each with a value or an explicit null, none of them left out.
C32_DerivedFieldsExplicit ==
    \A k \in 1..Len(data.uploads) :
        /\ data.uploads[k].exif # "absent"
        /\ data.uploads[k].quality # "absent"
        /\ data.uploads[k].detection # "absent"

\* the handler of this upload is waiting for the detector after the step
DetectorCalled(r) ==
    \E q \in inflight' : q.kind = "upload" /\ q.pc = "detect" /\ q.entry.id = r.entry.id

C35_Step ==
    \A r \in inflight :
        (r.kind = "upload" /\ r.pc = "analysis" /\ Resumes(r)) =>
            /\ DetectorCalled(r) <=> (cfg.roboflow /\ r.entry.checkItem # "none")
            /\ ~DetectorCalled(r) =>
                  /\ last'.op = "uploaded" /\ last'.result = "Ok"
                  /\ data'.uploads[Len(data'.uploads)].id = r.entry.id
                  /\ data'.uploads[Len(data'.uploads)].detection = "absent"

\* C35: after storing an Upload the handler calls the detector exactly when
\* the detector is configured and the Upload has a category; otherwise it
\* makes no call, and the Upload is stored and returned without detection.
C35_DetectorCalledIff == [][C35_Step]_vars

\* detector configured, upload without category: stored, answered, no detection
C35_Witness ==
    /\ cfg.roboflow /\ inflight = {}
    /\ last.op = "uploaded" /\ last.result = "Ok"
    /\ \E k \in 1..Len(data.uploads) :
          /\ data.uploads[k].inspectionId = last.id
          /\ data.uploads[k].checkItem = "none"
          /\ data.uploads[k].detection = "absent"

\* the analyses that have just been made
Analysed == IF last.op = "quality" THEN last.body ELSE {}

\* C36: of every analysed image, isDark says that the mean of the channel
\* means is below 40, isLowRes that the width is below 800 or the height
\* below 600, and the warnings are the darkness warning if isDark followed by
\* the resolution warning if isLowRes, and nothing else.
C36_QualityFlagsAndWarnings ==
    \A a \in Analysed :
        LET q == a.quality
            n == Len(a.channels)
        IN /\ q.isDark <=> SumMeans(a.channels) < 40 * n
           /\ q.isLowRes <=> (q.width < 800 \/ q.height < 600)
           /\ q.warnings =
                 CASE q.isDark /\ q.isLowRes ->
                        <<"Photo may be too dark", "Resolution below 800x600">>
                   [] q.isDark /\ ~q.isLowRes -> <<"Photo may be too dark">>
                   [] ~q.isDark /\ q.isLowRes -> <<"Resolution below 800x600">>
                   [] OTHER -> <<>>

\* dark by a fraction (mean 39.67, stored as 40) and too narrow: two warnings
C36_Witness ==
    \E a \in Analysed :
        /\ a.channels = <<39, 40, 40>>
        /\ a.quality.avgLuminance = 40
        /\ a.quality.width = 799 /\ a.quality.height = 600
        /\ Len(a.quality.warnings) = 2

C37_Step ==
    last'.op = "approve" =>
        LET id == last'.id IN
        IF ~Exists(id)
        THEN last'.result = "NotFound" /\ data' = data
        ELSE IF Find(data, id).aiReport = "none"
        THEN last'.result \notin {"Ok", "NotFound"} /\ data' = data
        ELSE /\ last'.result = "Ok"
             /\ data' = [data EXCEPT
                    !.inspections[FindIndex(data, id)].aiReport = "reviewed",
                    !.inspections[FindIndex(data, id)].status = "completed"]

\* C37: approving an unknown inspection, or one without an AI report, is
\* answered with an error and changes nothing in the store; approving an
\* inspection that has an AI report marks the report reviewed and the
\* inspection completed and changes nothing else.
C37_ApproveNeedsReport == [][C37_Step]_vars

\* an inspection with a report, approved
C37_Witness ==
    /\ last.op = "approve" /\ last.result = "Ok"
    /\ Find(data, last.id).aiReport = "reviewed"
    /\ Find(data, last.id).status = "completed"

\* the stored upload's request has been answered
Answered(u) ==
    /\ Ready
    /\ \A r \in inflight : r.kind = "upload" => r.entry.id # u.id

C38_Step ==
    \A k \in 1..Len(data.uploads) :
        Answered(data.uploads[k]) =>
            \E j \in 1..Len(data'.uploads) : data'.uploads[j].id = data.uploads[k].id

\* C38: the Upload record of an upload or notify request that has been
\* answered successfully is in the store in every later state, whatever
\* other handlers write.
C38_AcknowledgedUploadsStay == [][C38_Step]_vars

C39_Step ==
    (last'.op = "fraud-score" /\ last'.result = "Ok") =>
        LET k == FindIndex(data, last'.id)
            new == data'.inspections[k].fraudScore
        IN /\ k # 0
           /\ data' = [data EXCEPT !.inspections[k].fraudScore = new]
           /\ new # NoScore
           /\ new.timestamp = now
           /\ new.level = (IF new.score < 30 THEN "low"
                           ELSE IF new.score < 70 THEN "medium" ELSE "high")
           /\ new.autoFlag <=> new.score >= 70

\* C39: a scoring run on an existing inspection changes nothing in the store
\* but that inspection's assessment, which is a whole new one stamped with
\* the instant of the run: status, token hash and expiry, uploads, the other
\* inspections and the history records stay as they were.
C39_OnlyAssessmentReplaced == [][C39_Step]_vars

\* an inspection with an upload scored at a later instant, beside another one
C39_Witness ==
    /\ last.op = "fraud-score" /\ last.result = "Ok"
    /\ now > 0
    /\ Find(data, last.id).fraudScore.timestamp = now
    /\ Find(data, last.id).status = "submitted"
    /\ UploadsOf(data, last.id) # <<>>

\* the provider's predictions for the upload are not empty, whichever call
\* stored them
HasPredictions(u) == u.detection \in {"found", "result:found"}

C34_Step ==
    (last'.op = "fraud-score" /\ last'.result = "Ok") =>
        LET insp == Find(data', last'.id)
            ups == UploadsOf(data, last'.id)
        IN (/\ ~insp.sellerDisclosedDamage
            /\ \E k \in 1..Len(ups) : HasPredictions(ups[k])) =>
                \E f \in 1..Len(insp.fraudScore.flags) : insp.fraudScore.flags[f] = 3

\* C34: a scoring run flags signal 3 whenever an upload of the inspection
\* has predictions and no damage was declared, whether the predictions were
\* attached by the intake's own detection step or by the detect call.
C34_AnyDetectionCounts == [][C34_Step]_vars

\* what the server's operations have stored of the values the signals read
NothingDeclared ==
    /\ \A insp \in Inspections :
          /\ ~insp.sellerZip /\ insp.vin = "absent"
          /\ insp.odometerReading = 0 /\ ~insp.sellerDisclosedDamage
    /\ \A k \in 1..Len(data.uploads) : data.uploads[k].ocrVin = "absent"
    /\ \A k \in 1..Len(data.vinRecords) :
          /\ ~data.vinRecords[k].hasReading
          /\ data.vinRecords[k].ownershipCount = 0
          /\ data.vinRecords[k].vin # "absent"

\* C40: in a store built from empty by the server's operations no inspection
\* has a seller ZIP, VIN or mileage, no upload a recognized VIN and no history
\* record a reading or an ownership count; every stored assessment flags
\* signals 3 and 6 at most, has a score of 30 or less and autoFlag false.
C40_OnlyDamageAndQuality ==
    /\ NothingDeclared
    /\ \A insp \in Scored :
          /\ FlagSet(insp) \subseteq {3, 6}
          /\ insp.fraudScore.score <= 30
          /\ ~insp.fraudScore.autoFlag

\* a far GPS position, a plate photo and a saved history record, and still
\* only the detected damage counts
C40_Witness ==
    \E insp \in Scored :
        /\ insp.fraudScore.flags = <<3>> /\ insp.fraudScore.score = 20
        /\ \E k \in 1..Len(data.uploads) :
              /\ data.uploads[k].inspectionId = insp.id
              /\ data.uploads[k].exif = "far"
              /\ data.uploads[k].checkItem = "vin_plate"
              /\ data.uploads[k].detection = "found"

\* a handler is suspended on a call to an external provider
AwaitingProvider == \E r \in inflight : r.pc \in {"detect", "provider"}

\* C33: every call to an external provider ends: a state in which a handler
\* waits for a provider is followed by one in which none does.
C33_ProviderCallsEnd == AwaitingProvider ~> ~AwaitingProvider

====
